---- MODULE Spec2Model ----
(***************************************************************************)
(* Model of the Black-Scholes pricing engine (src/black_scholes_model.py). *)
(*                                                                         *)
(* Numbers.  The engine computes in IEEE-754 binary floating point.  The   *)
(* model uses a reduced-width binary format: a finite value is an integer  *)
(* count of units of 2^-FracBits, the smallest positive magnitude of the   *)
(* format (the analogue of the smallest subnormal double, 2^-1074), and    *)
(* every operation rounds its exact result to the nearest unit, ties to    *)
(* even, as IEEE arithmetic does.  A non-zero exact result of magnitude at *)
(* most half a unit therefore underflows to zero.  The three non-finite    *)
(* values PInf, NInf and NaN follow the IEEE rules.  The format is wide    *)
(* enough at the top that no operation on the bounded inputs overflows.    *)
(***************************************************************************)
EXTENDS Integers, Sequences, FiniteSets, TLC

\* Number of fractional bits of the reduced-width format.
FracBits == 4

\* The value 1.0.
ONE == 2 ^ FracBits

PInf == 2 ^ 30
NInf == -(2 ^ 30)
NaN == 2 ^ 30 + 1

IsNaN(x) == x = NaN
IsInf(x) == x = PInf \/ x = NInf
IsFinite(x) == NInf < x /\ x < PInf

Abs(n) == IF n < 0 THEN -n ELSE n
Sign(n) == IF n < 0 THEN -1 ELSE IF n > 0 THEN 1 ELSE 0

\* n / d for d > 0, rounded to the nearest integer, ties to even.
RoundDiv(n, d) ==
    LET q == n \div d
        r == n % d
    IN  IF 2 * r < d THEN q
        ELSE IF 2 * r > d THEN q + 1
        ELSE IF q % 2 = 0 THEN q ELSE q + 1

\* Floor of the square root of a natural number.
ISqrt(n) == CHOOSE s \in 0..n : s * s <= n /\ n < (s + 1) * (s + 1)

FNeg(x) ==
    IF IsNaN(x) THEN NaN
    ELSE IF x = PInf THEN NInf
    ELSE IF x = NInf THEN PInf
    ELSE -x

FAdd(x, y) ==
    IF IsNaN(x) \/ IsNaN(y) THEN NaN
    ELSE IF IsInf(x) /\ IsInf(y) THEN (IF x = y THEN x ELSE NaN)
    ELSE IF IsInf(x) THEN x
    ELSE IF IsInf(y) THEN y
    ELSE x + y

FSub(x, y) == FAdd(x, FNeg(y))

FMul(x, y) ==
    IF IsNaN(x) \/ IsNaN(y) THEN NaN
    ELSE IF IsInf(x) \/ IsInf(y)
         THEN (IF x = 0 \/ y = 0 THEN NaN
               ELSE IF Sign(x) * Sign(y) > 0 THEN PInf ELSE NInf)
    ELSE RoundDiv(x * y, ONE)

\* Division never raises: a zero divisor gives an infinity, or NaN for 0/0.
FDiv(x, y) ==
    IF IsNaN(x) \/ IsNaN(y) THEN NaN
    ELSE IF IsInf(x)
         THEN (IF IsInf(y) THEN NaN
               ELSE IF Sign(x) * (IF y < 0 THEN -1 ELSE 1) > 0 THEN PInf ELSE NInf)
    ELSE IF IsInf(y) THEN 0
    ELSE IF y = 0
         THEN (IF x = 0 THEN NaN ELSE IF x > 0 THEN PInf ELSE NInf)
    ELSE IF y > 0 THEN RoundDiv(x * ONE, y)
    ELSE RoundDiv(-(x * ONE), -y)

\* x ** 2
FSquare(x) == FMul(x, x)

\* numpy.sqrt: correctly rounded; the root of a positive value is positive.
FSqrt(x) ==
    IF IsNaN(x) \/ x = NInf THEN NaN
    ELSE IF x = PInf THEN PInf
    ELSE IF x < 0 THEN NaN
    ELSE LET n == x * ONE
             s == ISqrt(n)
         IN  IF n > s * s + s THEN s + 1 ELSE s

\* The constant 0.5 and the integer constants of the formulas.
Half == ONE \div 2
Num(k) == k * ONE

\* ln 2 in units.
LN2 == RoundDiv(693147 * ONE, 1000000)

\* ln m for ONE <= m < 2 * ONE: 2 * (z + z^3/3 + z^5/5), z = (m - 1)/(m + 1).
LnMantissa(m) ==
    LET z  == FDiv(m - ONE, m + ONE)
        z2 == FMul(z, z)
        z3 == FMul(z, z2)
        z5 == FMul(z3, z2)
    IN  2 * (z + RoundDiv(z3, 3) + RoundDiv(z5, 5))

RECURSIVE LnPos(_)
LnPos(x) ==
    IF x >= 2 * ONE THEN LN2 + LnPos(RoundDiv(x, 2))
    ELSE IF x < ONE THEN LnPos(2 * x) - LN2
    ELSE LnMantissa(x)

\* numpy.log
FLog(x) ==
    IF IsNaN(x) \/ x = NInf THEN NaN
    ELSE IF x = PInf THEN PInf
    ELSE IF x < 0 THEN NaN
    ELSE IF x = 0 THEN NInf
    ELSE LnPos(x)

\* exp(x) for -1/2 <= x <= 0: 1 + x + x^2/2 + x^3/6 + x^4/24.
ExpSmall(x) ==
    LET x2 == FMul(x, x)
        x3 == FMul(x2, x)
        x4 == FMul(x2, x2)
    IN  ONE + x + RoundDiv(x2, 2) + RoundDiv(x3, 6) + RoundDiv(x4, 24)

RECURSIVE ExpNeg(_)
ExpNeg(x) ==
    IF x < -((FracBits + 2) * ONE) THEN 0
    ELSE IF x < -Half
         THEN LET h == ExpNeg(RoundDiv(x, 2)) IN FMul(h, h)
    ELSE ExpSmall(x)

\* numpy.exp
FExp(x) ==
    IF IsNaN(x) THEN NaN
    ELSE IF x = PInf THEN PInf
    ELSE IF x = NInf THEN 0
    ELSE IF x <= 0 THEN ExpNeg(x)
    ELSE FDiv(ONE, ExpNeg(-x))

\* Standard normal distribution function at 0, 1/4, ..., 3, times 10000.
CdfTable ==
    << 5000, 5987, 6915, 7734, 8413, 8944, 9332, 9599, 9772, 9878, 9938,
       9970, 9987 >>

CdfScale == 10000

\* The distribution function at x >= 0, in units of 1/CdfScale, by linear
\* interpolation in CdfTable; 1 beyond the end of the table.
CdfPos(x) ==
    LET i == (4 * x) \div ONE
        f == (4 * x) % ONE
    IN  IF i + 1 >= Len(CdfTable) THEN CdfScale
        ELSE CdfTable[i + 1]
             + RoundDiv((CdfTable[i + 2] - CdfTable[i + 1]) * f, ONE)

\* scipy.stats.norm.cdf
NormCdf(x) ==
    IF IsNaN(x) THEN NaN
    ELSE IF x = PInf THEN ONE
    ELSE IF x = NInf THEN 0
    ELSE IF x >= 0 THEN RoundDiv(CdfPos(x) * ONE, CdfScale)
    ELSE RoundDiv((CdfScale - CdfPos(-x)) * ONE, CdfScale)

\* numpy.pi
Pi == RoundDiv(3141593 * ONE, 1000000)

FMax(x, y) == IF IsNaN(x) \/ IsNaN(y) THEN NaN ELSE IF x >= y THEN x ELSE y

(***************************************************************************)
(* Inputs of the calls, in units of 2^-FracBits.  The value 1 is the       *)
(* smallest positive number of the format.                                 *)
(***************************************************************************)
MaxSpots == 2

TimeValues == {0, 1, ONE}
StrikeValues == {-5 * ONE, 0, ONE, 2 * ONE}
CurrentValues == {0, ONE}
VolatilityValues == {0, 1, Half}
RateValues == {-1, 0, 1}
SpotValues == {ONE, 3 * ONE}
PurchaseValues == {-ONE, 0, ONE}

SpotRanges == UNION {[1..n -> SpotValues] : n \in 0..MaxSpots}

(***************************************************************************)
(* Messages of the ValueErrors.                                            *)
(***************************************************************************)
NoError == ""
ErrTime == "Time to maturity must be positive"
ErrStrike == "Strike price must be positive"
ErrCurrent == "Current price must be positive"
ErrVolatility == "Volatility must be positive"
ErrRate == "Interest rate cannot be negative"
ErrPurchase == "Purchase price cannot be negative"
ErrEmptyRange == "Spot range cannot be empty"

(***************************************************************************)
(* State.                                                                  *)
(*   engine    the BlackScholes instance the caller holds: <<>> when there *)
(*             is none, else <<self>> with the instance's attributes       *)
(*   lastOp    the last call made: "construct", "prices", "greeks", "pnl"  *)
(*   args      the arguments of the last call                              *)
(*   error     the message of the ValueError the last call raised, or ""   *)
(*   result    the value the last call returned, <<>> when it raised       *)
(*   divisors  the divisors the last call evaluated, in evaluation order   *)
(*   first     the first query made on the current instance, what it       *)
(*             returned or raised, and whether a different query followed  *)
(***************************************************************************)
VARIABLES engine, lastOp, args, error, result, divisors, first

vars == <<engine, lastOp, args, error, result, divisors, first>>

NoEngine == <<>>
NoResult == <<>>
NoFirst ==
    [op |-> "none", args |-> <<>>, result |-> <<>>, error |-> NoError,
     others |-> FALSE]

\* _validate_inputs rejecting a zero interest rate (<= where the code has <).
ValidateInputsRateStrict(time_to_maturity, strike_price, current_price, volatility, interest_rate) ==
    IF time_to_maturity <= 0 THEN ErrTime
    ELSE IF strike_price <= 0 THEN ErrStrike
    ELSE IF current_price <= 0 THEN ErrCurrent
    ELSE IF volatility <= 0 THEN ErrVolatility
    ELSE IF interest_rate <= 0 THEN ErrRate
    ELSE NoError

\* _validate_inputs checking current_price before strike_price.
ValidateInputsSwapped(time_to_maturity, strike_price, current_price, volatility, interest_rate) ==
    IF time_to_maturity <= 0 THEN ErrTime
    ELSE IF current_price <= 0 THEN ErrCurrent
    ELSE IF strike_price <= 0 THEN ErrStrike
    ELSE IF volatility <= 0 THEN ErrVolatility
    ELSE IF interest_rate < 0 THEN ErrRate
    ELSE NoError

\* BlackScholes._validate_inputs: the message raised, NoError when none is.
ValidateInputs(time_to_maturity, strike_price, current_price, volatility, interest_rate) ==
    IF time_to_maturity <= 0 THEN ErrTime
    ELSE IF strike_price <= 0 THEN ErrStrike
    ELSE IF current_price <= 0 THEN ErrCurrent
    ELSE IF volatility <= 0 THEN ErrVolatility
    ELSE IF interest_rate < 0 THEN ErrRate
    ELSE NoError

\* The divisor of d1: self.volatility * sqrt(self.time_to_maturity).
D1Divisor(self) == FMul(self.volatility, FSqrt(self.time_to_maturity))

\* BlackScholes._calculate_d1_d2
CalculateD1D2(self) ==
    LET d1 == FDiv(FAdd(FLog(FDiv(self.current_price, self.strike_price)),
                        FMul(FAdd(self.interest_rate,
                                  FMul(Half, FSquare(self.volatility))),
                             self.time_to_maturity)),
                   D1Divisor(self))
        d2 == FSub(d1, FMul(self.volatility, FSqrt(self.time_to_maturity)))
    IN  <<d1, d2>>

\* The attributes BlackScholes.__init__ sets on a validated instance.
NewEngine(time_to_maturity, strike_price, current_price, volatility, interest_rate) ==
    LET inputs == [time_to_maturity |-> time_to_maturity,
                   strike_price |-> strike_price,
                   current_price |-> current_price,
                   volatility |-> volatility,
                   interest_rate |-> interest_rate]
        d == CalculateD1D2(inputs)
    IN  [time_to_maturity |-> time_to_maturity,
         strike_price |-> strike_price,
         current_price |-> current_price,
         volatility |-> volatility,
         interest_rate |-> interest_rate,
         d1 |-> d[1],
         d2 |-> d[2]]

\* exp(-self.interest_rate * self.time_to_maturity)
DiscountFactor(self) ==
    FExp(FMul(FNeg(self.interest_rate), self.time_to_maturity))

\* BlackScholes.calculate_prices: <<call_price, put_price>>.
CalculatePrices(self) ==
    LET discount_factor == DiscountFactor(self)
        call_price ==
            FSub(FMul(self.current_price, NormCdf(self.d1)),
                 FMul(FMul(self.strike_price, discount_factor),
                      NormCdf(self.d2)))
        put_price ==
            FSub(FMul(FMul(self.strike_price, discount_factor),
                      NormCdf(FNeg(self.d2))),
                 FMul(self.current_price, NormCdf(FNeg(self.d1))))
    IN  <<call_price, put_price>>

\* The divisor of gamma: self.current_price * self.volatility * sqrt_t.
GammaDivisor(self) ==
    FMul(FMul(self.current_price, self.volatility),
         FSqrt(self.time_to_maturity))

\* The divisor of both thetas: 2 * sqrt_t.
ThetaDivisor(self) == FMul(Num(2), FSqrt(self.time_to_maturity))

\* The divisors calculate_greeks evaluates, in order: 2 and sqrt(2 * pi) in
\* d1_pdf, then those of gamma, call_theta and put_theta.
GreeksDivisors(self) ==
    << Num(2), FSqrt(FMul(Num(2), Pi)), GammaDivisor(self),
       ThetaDivisor(self), ThetaDivisor(self) >>

\* OptionGreeks
OptionGreeks(delta, gamma, theta, vega, rho) ==
    [delta |-> delta, gamma |-> gamma, theta |-> theta, vega |-> vega,
     rho |-> rho]

\* BlackScholes.calculate_greeks: <<call_greeks, put_greeks>>.
CalculateGreeks(self) ==
    LET discount_factor == DiscountFactor(self)
        sqrt_t == FSqrt(self.time_to_maturity)
        d1_pdf == FDiv(FExp(FDiv(FNeg(FSquare(self.d1)), Num(2))),
                       FSqrt(FMul(Num(2), Pi)))
        call_delta == NormCdf(self.d1)
        gamma == FDiv(d1_pdf, GammaDivisor(self))
        call_theta ==
            FSub(FNeg(FDiv(FMul(FMul(self.current_price, d1_pdf),
                                self.volatility),
                           ThetaDivisor(self))),
                 FMul(FMul(FMul(self.interest_rate, self.strike_price),
                           discount_factor),
                      NormCdf(self.d2)))
        vega == FMul(FMul(self.current_price, sqrt_t), d1_pdf)
        call_rho ==
            FMul(FMul(FMul(self.strike_price, self.time_to_maturity),
                      discount_factor),
                 NormCdf(self.d2))
        put_delta == FSub(call_delta, Num(1))
        put_theta ==
            FAdd(FNeg(FDiv(FMul(FMul(self.current_price, d1_pdf),
                                self.volatility),
                           ThetaDivisor(self))),
                 FMul(FMul(FMul(self.interest_rate, self.strike_price),
                           discount_factor),
                      NormCdf(FNeg(self.d2))))
        put_rho ==
            FMul(FMul(FMul(FNeg(self.strike_price), self.time_to_maturity),
                      discount_factor),
                 NormCdf(FNeg(self.d2)))
    IN  << OptionGreeks(call_delta, gamma, call_theta, vega, call_rho),
           OptionGreeks(put_delta, gamma, put_theta, vega, put_rho) >>

\* calculate_pnl checking the range before the purchase price.
ValidatePnlRangeFirst(spot_range, purchase_price) ==
    IF Len(spot_range) = 0 THEN ErrEmptyRange
    ELSE IF purchase_price < 0 THEN ErrPurchase
    ELSE NoError

\* The checks of BlackScholes.calculate_pnl: the message raised, or NoError.
ValidatePnl(spot_range, purchase_price) ==
    IF purchase_price < 0 THEN ErrPurchase
    ELSE IF Len(spot_range) = 0 THEN ErrEmptyRange
    ELSE NoError

\* calculate_pnl taking the payoff around self.current_price.
CalculatePnlAroundSpot(self, spot_range, purchase_price) ==
    LET call_pnl == [i \in 1..Len(spot_range) |->
                        FSub(FMax(0, FSub(spot_range[i], self.current_price)),
                             purchase_price)]
        put_pnl == [i \in 1..Len(spot_range) |->
                        FSub(FMax(0, FSub(self.current_price, spot_range[i])),
                             purchase_price)]
    IN  <<call_pnl, put_pnl>>

\* calculate_pnl returning the two arrays in the other order.
CalculatePnlSwapped(self, spot_range, purchase_price) ==
    LET call_pnl == [i \in 1..Len(spot_range) |->
                        FSub(FMax(0, FSub(spot_range[i], self.strike_price)),
                             purchase_price)]
        put_pnl == [i \in 1..Len(spot_range) |->
                        FSub(FMax(0, FSub(self.strike_price, spot_range[i])),
                             purchase_price)]
    IN  <<put_pnl, call_pnl>>

\* The arrays BlackScholes.calculate_pnl returns: <<call_pnl, put_pnl>>.
CalculatePnl(self, spot_range, purchase_price) ==
    LET call_pnl == [i \in 1..Len(spot_range) |->
                        FSub(FMax(0, FSub(spot_range[i], self.strike_price)),
                             purchase_price)]
        put_pnl == [i \in 1..Len(spot_range) |->
                        FSub(FMax(0, FSub(self.strike_price, spot_range[i])),
                             purchase_price)]
    IN  <<call_pnl, put_pnl>>

\* The first query on an instance is remembered with what it returned or
\* raised; a later query leaves it alone, and one that differs from it in
\* method or arguments is noted in the field others.
Remember(op, a, res, err) ==
    IF first.op = "none"
    THEN [op |-> op, args |-> a, result |-> res, error |-> err,
          others |-> FALSE]
    ELSE IF first.op = op /\ first.args = a THEN first
    ELSE [first EXCEPT !.others = TRUE]

Init ==
    /\ engine = NoEngine
    /\ lastOp = "none"
    /\ args = <<>>
    /\ error = NoError
    /\ result = NoResult
    /\ divisors = <<>>
    /\ first = NoFirst

\* bs = BlackScholes(t, k, s, v, r).  A behaviour follows one instance: the
\* caller constructs, again after a rejected tuple or while it has made no
\* query, and then queries the instance it holds.  Instances share nothing
\* (the class has no class attributes and the module no globals), so what
\* holds of one holds of all.
Construct(t, k, s, v, r) ==
    LET msg == ValidateInputs(t, k, s, v, r)
    IN  /\ first.op = "none"
        /\ lastOp' = "construct"
        /\ args' = <<t, k, s, v, r>>
        /\ error' = msg
        /\ result' = NoResult
        /\ first' = NoFirst
        /\ IF msg # NoError
           THEN /\ engine' = NoEngine
                /\ divisors' = <<>>
           ELSE LET self == NewEngine(t, k, s, v, r)
                IN  /\ engine' = <<self>>
                    /\ divisors' = <<D1Divisor(self)>>

\* bs.calculate_prices()
CalculatePricesCall ==
    /\ engine # NoEngine
    /\ LET res == CalculatePrices(engine[1])
       IN  /\ lastOp' = "prices"
           /\ args' = <<>>
           /\ error' = NoError
           /\ result' = res
           /\ divisors' = <<>>
           /\ first' = Remember("prices", <<>>, res, NoError)
           /\ UNCHANGED engine

\* calculate_greeks negating self._d2 in place for the put side.
CalculateGreeksCallNegating ==
    /\ engine # NoEngine
    /\ LET res == CalculateGreeks(engine[1])
       IN  /\ lastOp' = "greeks"
           /\ args' = <<>>
           /\ error' = NoError
           /\ result' = res
           /\ divisors' = GreeksDivisors(engine[1])
           /\ first' = Remember("greeks", <<>>, res, NoError)
           /\ engine' = <<[engine[1] EXCEPT !.d2 = FNeg(@)]>>

\* bs.calculate_greeks()
CalculateGreeksCall ==
    /\ engine # NoEngine
    /\ LET res == CalculateGreeks(engine[1])
       IN  /\ lastOp' = "greeks"
           /\ args' = <<>>
           /\ error' = NoError
           /\ result' = res
           /\ divisors' = GreeksDivisors(engine[1])
           /\ first' = Remember("greeks", <<>>, res, NoError)
           /\ UNCHANGED engine

\* calculate_pnl moving self.current_price to the last spot of the range.
CalculatePnlCallRepricing(spot_range, purchase_price) ==
    /\ engine # NoEngine
    /\ LET msg == ValidatePnl(spot_range, purchase_price)
           res == IF msg # NoError THEN NoResult
                  ELSE CalculatePnl(engine[1], spot_range, purchase_price)
       IN  /\ lastOp' = "pnl"
           /\ args' = <<spot_range, purchase_price>>
           /\ error' = msg
           /\ result' = res
           /\ divisors' = <<>>
           /\ first' = Remember("pnl", <<spot_range, purchase_price>>, res, msg)
           /\ engine' =
                  IF msg # NoError THEN engine
                  ELSE <<[engine[1] EXCEPT
                             !.current_price = spot_range[Len(spot_range)]]>>

\* bs.calculate_pnl(spot_range, purchase_price)
CalculatePnlCall(spot_range, purchase_price) ==
    /\ engine # NoEngine
    /\ LET msg == ValidatePnl(spot_range, purchase_price)
           res == IF msg # NoError THEN NoResult
                  ELSE CalculatePnl(engine[1], spot_range, purchase_price)
       IN  /\ lastOp' = "pnl"
           /\ args' = <<spot_range, purchase_price>>
           /\ error' = msg
           /\ result' = res
           /\ divisors' = <<>>
           /\ first' = Remember("pnl", <<spot_range, purchase_price>>, res, msg)
           /\ UNCHANGED engine

Next ==
    \/ \E t \in TimeValues, k \in StrikeValues, s \in CurrentValues,
          v \in VolatilityValues, r \in RateValues : Construct(t, k, s, v, r)
    \/ CalculatePricesCall
    \/ CalculateGreeksCall
    \/ \E spot_range \in SpotRanges, purchase_price \in PurchaseValues :
          CalculatePnlCall(spot_range, purchase_price)

Spec == Init /\ [][Next]_vars

(***************************************************************************)
(* Properties.                                                             *)
(***************************************************************************)

\* The construction rules a tuple of constructor arguments violates, by
\* their position in the order of section 4.1.
Violated(a) ==
    {i \in 1..5 : IF i = 5 THEN a[i] < 0 ELSE a[i] <= 0}

RuleMessage == <<ErrTime, ErrStrike, ErrCurrent, ErrVolatility, ErrRate>>

Least(S) == CHOOSE i \in S : \A j \in S : i <= j

C2_FirstViolatedRule ==
    /\ \A i, j \in 1..5 : i # j => RuleMessage[i] # RuleMessage[j]
    /\ (lastOp = "construct" /\ Violated(args) # {}) =>
           error = RuleMessage[Least(Violated(args))]

C2_Witness ==
    /\ lastOp = "construct"
    /\ Cardinality(Violated(args)) >= 2
    /\ error = RuleMessage[Least(Violated(args))]

\* C3: calculate_pnl raises the purchase-price error exactly when
\* purchase_price < 0 (whatever the range), the empty-range error exactly
\* when purchase_price >= 0 and the range is empty, and returns otherwise;
\* the two errors are distinct.
C3_PnlFailsIff ==
    /\ ErrPurchase # ErrEmptyRange
    /\ lastOp = "pnl" =>
           /\ (error = ErrPurchase) <=> (args[2] < 0)
           /\ (error = ErrEmptyRange) <=> (args[2] >= 0 /\ Len(args[1]) = 0)
           /\ (error = NoError) <=> (args[2] >= 0 /\ Len(args[1]) > 0)
           /\ (error = NoError) <=> (result # NoResult)

C3_Witness ==
    /\ lastOp = "pnl"
    /\ args[2] < 0
    /\ Len(args[1]) = 0
    /\ error = ErrPurchase

\* max(0, x) on finite values.
Positive(x) == IF x > 0 THEN x ELSE 0

\* C4: a successful calculate_pnl returns two arrays of the length of
\* spot_range with call_pnl[i] = max(0, spot_range[i] - strike_price) -
\* purchase_price and put_pnl[i] = max(0, strike_price - spot_range[i]) -
\* purchase_price: a function of strike_price, spot_range and
\* purchase_price alone.
C4_PnlFormula ==
    (lastOp = "pnl" /\ error = NoError) =>
        LET spot_range == args[1]
            purchase_price == args[2]
            strike_price == engine[1].strike_price
        IN  /\ Len(result) = 2
            /\ Len(result[1]) = Len(spot_range)
            /\ Len(result[2]) = Len(spot_range)
            /\ \A i \in 1..Len(spot_range) :
                   /\ result[1][i] =
                          Positive(spot_range[i] - strike_price)
                          - purchase_price
                   /\ result[2][i] =
                          Positive(strike_price - spot_range[i])
                          - purchase_price

C4_Witness ==
    /\ lastOp = "pnl"
    /\ error = NoError
    /\ Len(args[1]) = 2
    /\ args[1][1] # args[1][2]
    /\ args[2] > 0
    /\ engine[1].strike_price # engine[1].current_price

\* C5: put-call parity: call_price - put_price equals current_price -
\* strike_price * exp(-interest_rate * time_to_maturity) up to the rounding
\* of the arithmetic, here two units of the format.
C5_PutCallParity ==
    lastOp = "prices" =>
        LET lhs == FSub(result[1], result[2])
            rhs == FSub(engine[1].current_price,
                        FMul(engine[1].strike_price,
                             DiscountFactor(engine[1])))
        IN  /\ IsFinite(lhs)
            /\ IsFinite(rhs)
            /\ Abs(lhs - rhs) <= 2

\* C6: the five inputs and d1, d2 of an instance are those set at its
\* construction and are the values derived from its inputs; no call other
\* than the construction of a new instance changes them.
C6_FixedAfterConstruction ==
    /\ [](engine # NoEngine =>
            <<engine[1].d1, engine[1].d2>> = CalculateD1D2(engine[1]))
    /\ [][IF lastOp' = "construct"
          THEN engine' # NoEngine =>
                   /\ engine'[1].time_to_maturity = args'[1]
                   /\ engine'[1].strike_price = args'[2]
                   /\ engine'[1].current_price = args'[3]
                   /\ engine'[1].volatility = args'[4]
                   /\ engine'[1].interest_rate = args'[5]
          ELSE engine' = engine]_vars

C6_Witness ==
    /\ engine # NoEngine
    /\ lastOp = "pnl"
    /\ error = NoError
    /\ first.op = "greeks"
    /\ first.others

\* C7: a query repeated on an instance with the same arguments, after any
\* other queries, returns or raises what its first call did.
C7_Idempotent ==
    (engine # NoEngine /\ lastOp = first.op /\ args = first.args) =>
        /\ result = first.result
        /\ error = first.error

C7_Witness ==
    /\ engine # NoEngine
    /\ first.others
    /\ lastOp = "greeks"
    /\ lastOp = first.op
    /\ args = first.args

IsSorted(seq) == \A i, j \in 1..Len(seq) : i < j => seq[i] <= seq[j]

\* C8: on a spot_range sorted in non-decreasing order, call_pnl is
\* non-decreasing and put_pnl is non-increasing along the output.
C8_PnlMonotone ==
    (lastOp = "pnl" /\ error = NoError /\ IsSorted(args[1])) =>
        \A i, j \in 1..Len(args[1]) :
            i < j => /\ result[1][i] <= result[1][j]
                     /\ result[2][i] >= result[2][j]

C8_Witness ==
    /\ lastOp = "pnl"
    /\ error = NoError
    /\ Len(args[1]) = 2
    /\ args[1][1] < args[1][2]
    /\ result[1][1] < result[1][2]
    /\ result[2][1] > result[2][2]

\* C9: the call and put records returned by calculate_greeks carry the
\* same gamma and the same vega, and call delta minus put delta is
\* exactly 1.
C9_GreekSymmetry ==
    lastOp = "greeks" =>
        /\ result[1].gamma = result[2].gamma
        /\ result[1].vega = result[2].vega
        /\ FSub(result[1].delta, result[2].delta) = Num(1)

\* C10: every divisor a call evaluates is non-zero, and a tuple that fails
\* validation evaluates none and leaves no instance.
C10_NoDivisionByZero ==
    /\ \A i \in 1..Len(divisors) : divisors[i] # 0
    /\ (lastOp = "construct" /\ error # NoError) =>
           /\ engine = NoEngine
           /\ divisors = <<>>

\* Put-call parity on the instances whose prices are finite.
FiniteParity ==
    (lastOp = "prices" /\ IsFinite(result[1]) /\ IsFinite(result[2])) =>
        C5_PutCallParity

\* The delta relation on the instances whose d1 is not NaN.
NumericDelta ==
    (lastOp = "greeks" /\ ~IsNaN(engine[1].d1)) => C9_GreekSymmetry

====
